---- MODULE Spec2Model ----
(***************************************************************************)
(* The rive-lang tokenizer (src/src/lexer.rs, src/src/token.rs).           *)
(*                                                                         *)
(* A character is a string: an ASCII character is the one-character string *)
(* itself, any other character is written "U+XXXX".  A source is a         *)
(* sequence of characters; byte offsets are computed from len_utf8, so     *)
(* `pos` and the spans are byte offsets exactly as in the code, while      *)
(* `chars` counts the characters the Peekable<Chars> iterator has yielded. *)
(*                                                                         *)
(* One pull (<Lexer as Iterator>::next) runs from pc = "idle" back to      *)
(* pc = "idle"; every iteration of a scanning loop is a step of its own.   *)
(* Between two pulls a caller may also build a second lexer on the text    *)
(* the last pull started from (NewOnRest), which is how two lexers on the  *)
(* same text are compared.                                                 *)
(***************************************************************************)
EXTENDS Integers, Sequences, FiniteSets, TLC

VARIABLES
    source,   \* Lexer.source: the borrowed text, a sequence of characters
    chars,    \* Lexer.chars: how many characters the iterator has yielded
    pos,      \* Lexer.pos: the byte offset of the cursor
    pc,       \* where the running pull stands; "idle" between two pulls
    local,    \* the local variables of the running pull
    result,   \* what the last pull returned
    tokens,   \* every Some(WithSpan) returned so far, in order
    entry,    \* the lexer state (chars, pos) at the entry of the last pull
    fault,    \* TRUE once a pull has panicked
    memo      \* what the pull of another lexer returned on the same text

vars == <<source, chars, pos, pc, local, result, tokens, entry, fault, memo>>

(***************************************************************************)
(* Characters (std: char::len_utf8, is_whitespace, is_digit, ...).         *)
(***************************************************************************)

\* The code points of the non-ASCII characters the model uses.
code_point ==
    [c \in {"U+0085", "U+00A0", "U+00E9", "U+0663", "U+2003", "U+20AC",
            "U+3000", "U+1F600"} |->
        CASE c = "U+0085" -> 133      \* NEXT LINE (White_Space)
          [] c = "U+00A0" -> 160      \* NO-BREAK SPACE (White_Space)
          [] c = "U+00E9" -> 233      \* e with acute
          [] c = "U+0663" -> 1635     \* ARABIC-INDIC DIGIT THREE
          [] c = "U+2003" -> 8195     \* EM SPACE (White_Space)
          [] c = "U+20AC" -> 8364     \* EURO SIGN
          [] c = "U+3000" -> 12288    \* IDEOGRAPHIC SPACE (White_Space)
          [] c = "U+1F600" -> 128512] \* GRINNING FACE

is_ascii(ch) == ch \notin DOMAIN code_point

\* char::len_utf8, as lexer.rs:40, 107 and 198 call it.
len_utf8(ch) ==
    IF is_ascii(ch) THEN 1
    ELSE IF code_point[ch] < 2048 THEN 2
    ELSE IF code_point[ch] < 65536 THEN 3
    ELSE 4

Digits == {"0", "1", "2", "3", "4", "5", "6", "7", "8", "9"}

Lower == {"a", "b", "c", "d", "e", "f", "g", "h", "i", "j", "k", "l", "m",
          "n", "o", "p", "q", "r", "s", "t", "u", "v", "w", "x", "y", "z"}

Upper == {"A", "B", "C", "D", "E", "F", "G", "H", "I", "J", "K", "L", "M",
          "N", "O", "P", "Q", "R", "S", "T", "U", "V", "W", "X", "Y", "Z"}

\* char::is_whitespace: the Unicode White_Space property.
is_whitespace(ch) ==
    ch \in {" ", "\t", "\n", "\r", "\f", "U+0085", "U+00A0", "U+2003", "U+3000"}

\* char::is_digit(10): the ASCII digits only.
is_digit(ch) == ch \in Digits

\* char::is_ascii_alphanumeric
is_ascii_alphanumeric(ch) == ch \in Digits \cup Lower \cup Upper

(***************************************************************************)
(* The closures the scanners pass to consume_if and consume_while, as      *)
(* values: [op, arg].  Apply calls one.                                    *)
(***************************************************************************)
Closure(op, arg) == [op |-> op, arg |-> arg]

Apply(f, x) ==
    CASE f.op = "is_whitespace" -> is_whitespace(x)                \* :98
      [] f.op = "is_digit"      -> is_digit(x)                     \* :108
      [] f.op = "eq"            -> x = f.arg                       \* :88, :109
      [] f.op = "ne"            -> x # f.arg                       \* :259
      [] f.op = "ident"         -> is_ascii_alphanumeric(x) \/ x = "_"  \* :199

(***************************************************************************)
(* Optional values.                                                        *)
(***************************************************************************)
NoChar == ""      \* Option<char>::None

\* Option<Token>::None.  The caller sees no more than None; `kind` records
\* where it came from: "Eof" (`self.next()?` at the end of the source),
\* "Parse" (`.parse().ok()` on an Err), "Slice" (`source.get(..)?` on a
\* range that is no slice), "Panic" (nothing was returned), "Start".
NoToken(why) == [some |-> FALSE, kind |-> why, text |-> <<>>]

Some(kind, text) == [some |-> TRUE, kind |-> kind, text |-> text]

(***************************************************************************)
(* Byte offsets and slices of the source (str indexing and str::get).      *)
(***************************************************************************)
RECURSIVE byte_len(_)
byte_len(s) == IF s = <<>> THEN 0 ELSE len_utf8(Head(s)) + byte_len(Tail(s))

\* Walk the characters from number i + 1, which starts at byte offset off,
\* to the first character boundary at or after byte offset b.
seek(i, off, b) ==
    LET walk[at \in (0..Len(source)) \X (0..(4 * Len(source)))] ==
            IF at[2] >= b \/ at[1] = Len(source)
            THEN [chars |-> at[1], pos |-> at[2]]
            ELSE walk[<<at[1] + 1, at[2] + len_utf8(source[at[1] + 1])>>]
    IN walk[<<i, off>>]

\* str::is_char_boundary
is_char_boundary(b) == b >= 0 /\ seek(0, 0, b).pos = b

\* The number of characters before byte offset b, a character boundary.
char_index(b) == seek(0, 0, b).chars

\* str::get(a..b): None unless a <= b and both are character boundaries.
get(a, b) ==
    IF a <= b /\ is_char_boundary(a) /\ is_char_boundary(b)
    THEN [some |-> TRUE, s |-> SubSeq(source, char_index(a) + 1, char_index(b))]
    ELSE [some |-> FALSE, s |-> <<>>]

(***************************************************************************)
(* The cursor: a lexer state L is [chars, pos].                            *)
(***************************************************************************)
Lexer(c, p) == [chars |-> c, pos |-> p]

\* self.chars.peek()
peek(L) == IF L.chars < Len(source) THEN source[L.chars + 1] ELSE NoChar

\* Lexer::next without line 40: the position is never updated.
next_no_pos(L) ==
    IF peek(L) # NoChar THEN Lexer(L.chars + 1, L.pos) ELSE L

\* Lexer::next counting characters, not bytes: `self.pos += 1`.
next_one_byte(L) ==
    IF peek(L) # NoChar THEN Lexer(L.chars + 1, L.pos + 1) ELSE L

\* Lexer::next: the state after the call; the character returned is peek(L).
next(L) ==
    IF peek(L) # NoChar
    THEN Lexer(L.chars + 1, L.pos + len_utf8(peek(L)))
    ELSE L

\* Lexer::consume_if
consume_if(L, f) ==
    IF peek(L) # NoChar
    THEN IF Apply(f, peek(L))
         THEN [L |-> next(L), hit |-> TRUE]
         ELSE [L |-> L, hit |-> FALSE]
    ELSE [L |-> L, hit |-> FALSE]

\* Lexer::either
either(L, to_match, matched, unmatched) ==
    LET c == consume_if(L, Closure("eq", to_match))
    IN IF c.hit
       THEN [L |-> c.L, tok |-> Some(matched, <<>>)]
       ELSE [L |-> c.L, tok |-> Some(unmatched, <<>>)]

(***************************************************************************)
(* Numbers (std: str::parse::<i64>, str::parse::<f64>, and negation).      *)
(* An i64 is written as its canonical decimal text, a sequence of          *)
(* characters with no leading zero and a leading "-" when it is negative,  *)
(* so that magnitudes around 2^63 are exact.  An f64 is written as the     *)
(* canonical decimal text of the literal; the model does not round to 53   *)
(* bits, so two literals count as equal only when they are the same        *)
(* decimal number.                                                         *)
(***************************************************************************)

\* i64::MAX, 2^63 - 1 (the payload type of Token::Int).
I64_MAX == <<"9", "2", "2", "3", "3", "7", "2", "0", "3", "6",
             "8", "5", "4", "7", "7", "5", "8", "0", "7">>

\* The magnitude of i64::MIN, 2^63.
I64_MIN_MAG == <<"9", "2", "2", "3", "3", "7", "2", "0", "3", "6",
                 "8", "5", "4", "7", "7", "5", "8", "0", "8">>

digit_value(d) == CHOOSE n \in 0..9 : ToString(n) = d

RECURSIVE strip_leading_zeros(_)
strip_leading_zeros(s) ==
    IF Len(s) > 1 /\ Head(s) = "0" THEN strip_leading_zeros(Tail(s)) ELSE s

RECURSIVE strip_trailing_zeros(_)
strip_trailing_zeros(s) ==
    IF s # <<>> /\ s[Len(s)] = "0"
    THEN strip_trailing_zeros(SubSeq(s, 1, Len(s) - 1))
    ELSE s

\* a <= b for two digit runs of the same length.
RECURSIVE lex_leq(_, _)
lex_leq(a, b) ==
    IF a = <<>> THEN TRUE
    ELSE IF digit_value(Head(a)) < digit_value(Head(b)) THEN TRUE
    ELSE IF digit_value(Head(a)) > digit_value(Head(b)) THEN FALSE
    ELSE lex_leq(Tail(a), Tail(b))

\* a <= b for two digit runs without leading zeros.
dec_leq(a, b) ==
    IF Len(a) # Len(b) THEN Len(a) < Len(b) ELSE lex_leq(a, b)

all_digits(s) == \A i \in 1..Len(s) : is_digit(s[i])

\* A parse that accepts a magnitude of any size.
parse_i64_unchecked(s) ==
    LET signed == s # <<>> /\ Head(s) \in {"+", "-"}
        neg == s # <<>> /\ Head(s) = "-"
        body == IF signed THEN Tail(s) ELSE s
        mag == strip_leading_zeros(body)
    IN IF body = <<>> \/ ~all_digits(body)
       THEN [ok |-> FALSE, v |-> <<>>]
       ELSE [ok |-> TRUE,
             v |-> IF neg /\ mag # <<"0">> THEN <<"-">> \o mag ELSE mag]

\* str::parse::<i64>: an optional sign, then one or more digits; Err on an
\* empty text, a lone sign, a character that is no digit, or a value outside
\* -2^63 .. 2^63 - 1.
parse_i64(s) ==
    LET signed == s # <<>> /\ Head(s) \in {"+", "-"}
        neg == s # <<>> /\ Head(s) = "-"
        body == IF signed THEN Tail(s) ELSE s
        mag == strip_leading_zeros(body)
        fits == dec_leq(mag, IF neg THEN I64_MIN_MAG ELSE I64_MAX)
    IN IF body = <<>> \/ ~all_digits(body) \/ ~fits
       THEN [ok |-> FALSE, v |-> <<>>]
       ELSE [ok |-> TRUE,
             v |-> IF neg /\ mag # <<"0">> THEN <<"-">> \o mag ELSE mag]

\* -x on an i64: it overflows (a panic in a debug build) on i64::MIN only.
neg_i64(v) ==
    IF v = <<"0">> THEN [v |-> v, overflow |-> FALSE]
    ELSE IF Head(v) = "-"
         THEN [v |-> Tail(v), overflow |-> Tail(v) = I64_MIN_MAG]
         ELSE [v |-> <<"-">> \o v, overflow |-> FALSE]

\* str::parse::<f64> on a text of signs, digits and dots: an optional sign,
\* then digits with at most one ".", at least one digit in all.
parse_f64(s) ==
    LET signed == s # <<>> /\ Head(s) \in {"+", "-"}
        neg == s # <<>> /\ Head(s) = "-"
        body == IF signed THEN Tail(s) ELSE s
        dots == {i \in 1..Len(body) : body[i] = "."}
        dot == IF dots = {} THEN Len(body) + 1 ELSE CHOOSE i \in dots : TRUE
        int == SubSeq(body, 1, dot - 1)
        frac == SubSeq(body, dot + 1, Len(body))
        wf == /\ Cardinality(dots) <= 1
              /\ all_digits(int) /\ all_digits(frac)
              /\ Len(int) + Len(frac) >= 1
        i == IF int = <<>> THEN <<"0">> ELSE strip_leading_zeros(int)
        f == IF strip_trailing_zeros(frac) = <<>> THEN <<"0">>
             ELSE strip_trailing_zeros(frac)
        zero == i = <<"0">> /\ f = <<"0">>
    IN IF ~wf THEN [ok |-> FALSE, v |-> <<>>]
       ELSE [ok |-> TRUE,
             v |-> (IF neg /\ ~zero THEN <<"-">> ELSE <<>>) \o i \o <<".">> \o f]

\* -x on an f64 (0.0 and -0.0 are equal as Token values).
neg_f64(v) ==
    IF v = <<"0", ".", "0">> THEN v
    ELSE IF Head(v) = "-" THEN Tail(v) ELSE <<"-">> \o v

\* The token of lex_number with the sign parsed as part of the text, not
\* applied afterwards.
number_token_signed(slice, is_float, is_negative) ==
    LET text == IF is_negative THEN <<"-">> \o slice.s ELSE slice.s
        f == parse_f64(text)
        i == parse_i64(text)
    IN IF ~slice.some
       THEN [tok |-> NoToken("Slice"), panic |-> FALSE]
       ELSE IF is_float
       THEN [tok |-> IF f.ok THEN Some("Float", f.v) ELSE NoToken("Parse"),
             panic |-> FALSE]
       ELSE [tok |-> IF i.ok THEN Some("Int", i.v) ELSE NoToken("Parse"),
             panic |-> FALSE]

\* The token of lines 112-123 of Lexer::lex_number, given the slice
\* source.get(start..pos), and whether the negation overflowed.
number_token(slice, is_float, is_negative) ==
    LET f == parse_f64(slice.s)
        i == parse_i64(slice.s)
    IN IF ~slice.some
       THEN [tok |-> NoToken("Slice"), panic |-> FALSE]
       ELSE IF is_float
       THEN [tok |-> IF f.ok
                     THEN Some("Float", IF is_negative THEN neg_f64(f.v) ELSE f.v)
                     ELSE NoToken("Parse"),
             panic |-> FALSE]
       ELSE [tok |-> IF i.ok
                     THEN Some("Int", IF is_negative THEN neg_i64(i.v).v ELSE i.v)
                     ELSE NoToken("Parse"),
             panic |-> i.ok /\ is_negative /\ neg_i64(i.v).overflow]

(***************************************************************************)
(* The scanners that have no loop: each gives the lexer state after it and *)
(* the token.                                                              *)
(***************************************************************************)

\* Some(Token::<kind>) for a token without payload, in state L.
plain(L, kind) == [L |-> L, tok |-> Some(kind, <<>>)]

\* lex_char looking at the character after the body without consuming it
\* when it is no closing quote.
lex_char_peek_closing(L) ==
    LET first == peek(L)
        L1 == next(L)
        esc == peek(L1)
        L2 == IF first = "\\" THEN next(L1) ELSE L1
        ch == IF first = "\\"
              THEN CASE esc = "n" -> "\n"
                     [] esc = "r" -> "\r"
                     [] esc = "t" -> "\t"
                     [] esc = "\\" -> "\\"
                     [] esc = "'" -> "'"
                     [] OTHER -> esc
              ELSE first
        closing == peek(L2)
        L3 == next(L2)
    IN IF first = NoChar
       THEN plain(L1, "UnterminatedChar")
       ELSE IF first = "\\" /\ esc = NoChar
       THEN plain(L2, "UnterminatedChar")
       ELSE IF closing = NoChar
       THEN plain(L3, "UnterminatedChar")
       ELSE IF closing # "'"
       THEN plain(L2, "InvalidCharLiteral")
       ELSE [L |-> L3, tok |-> Some("Char", <<ch>>)]

\* lex_char without lines 170-180: a backslash is a character like any
\* other.
lex_char_no_escape(L) ==
    LET first == peek(L)
        L1 == next(L)
        esc == peek(L1)
        L2 == L1
        ch == first
        closing == peek(L2)
        L3 == next(L2)
    IN IF first = NoChar
       THEN plain(L1, "UnterminatedChar")
       ELSE IF closing = NoChar
       THEN plain(L3, "UnterminatedChar")
       ELSE IF closing # "'"
       THEN plain(L3, "InvalidCharLiteral")
       ELSE [L |-> L3, tok |-> Some("Char", <<ch>>)]

\* Lexer::lex_char
lex_char(L) ==
    LET first == peek(L)
        L1 == next(L)
        esc == peek(L1)
        L2 == IF first = "\\" THEN next(L1) ELSE L1
        ch == IF first = "\\"
              THEN CASE esc = "n" -> "\n"
                     [] esc = "r" -> "\r"
                     [] esc = "t" -> "\t"
                     [] esc = "\\" -> "\\"
                     [] esc = "'" -> "'"
                     [] OTHER -> esc
              ELSE first
        closing == peek(L2)
        L3 == next(L2)
    IN IF first = NoChar
       THEN plain(L1, "UnterminatedChar")
       ELSE IF first = "\\" /\ esc = NoChar
       THEN plain(L2, "UnterminatedChar")
       ELSE IF closing = NoChar
       THEN plain(L3, "UnterminatedChar")
       ELSE IF closing # "'"
       THEN plain(L3, "InvalidCharLiteral")
       ELSE [L |-> L3, tok |-> Some("Char", <<ch>>)]

\* The arm for '<' without its second branch: "<<" is never one token.
lex_less_no_shift(L) ==
    LET eq == consume_if(L, Closure("eq", "="))
    IN IF eq.hit THEN plain(eq.L, "Le") ELSE plain(L, "Lt")

\* Lexer::lex, the arm for '<'
lex_less(L) ==
    LET eq == consume_if(L, Closure("eq", "="))
        lt == consume_if(L, Closure("eq", "<"))
    IN IF eq.hit THEN plain(eq.L, "Le")
       ELSE IF lt.hit THEN plain(lt.L, "LShift")
       ELSE plain(L, "Lt")

\* Lexer::lex, the arm for '>'
lex_greater(L) ==
    LET eq == consume_if(L, Closure("eq", "="))
        gt == consume_if(L, Closure("eq", ">"))
    IN IF eq.hit THEN plain(eq.L, "Ge")
       ELSE IF gt.hit THEN plain(gt.L, "RShift")
       ELSE plain(L, "Gt")

\* Lexer::lex, the arm for '.'
lex_dot(L) ==
    LET dot == consume_if(L, Closure("eq", "."))
    IN IF dot.hit
       THEN either(dot.L, "=", "RangeInclusive", "RangeExclusive")
       ELSE plain(L, "Dot")

\* The characters whose arm of the match in Lexer::lex is a punctuation or
\* an operator token, '-' apart.
Punctuation ==
    {"(", ")", "*", "+", ",", "/", ";", "[", "]", "{", "}", "^", "~", "%",
     "&", "|", ":", "!", "=", "<", ">", "."}

\* Lexer::lex, the arms of the characters of Punctuation; L is the state
\* after ch was consumed.
lex_punctuation(L, ch) ==
    CASE ch = "(" -> plain(L, "LParen")
      [] ch = ")" -> plain(L, "RParen")
      [] ch = "*" -> plain(L, "Star")
      [] ch = "+" -> plain(L, "Plus")
      [] ch = "," -> plain(L, "Comma")
      [] ch = "/" -> plain(L, "Slash")
      [] ch = ";" -> plain(L, "Semicolon")
      [] ch = "[" -> plain(L, "LBracket")
      [] ch = "]" -> plain(L, "RBracket")
      [] ch = "{" -> plain(L, "LBrace")
      [] ch = "}" -> plain(L, "RBrace")
      [] ch = "^" -> plain(L, "Caret")
      [] ch = "~" -> plain(L, "Tilde")
      [] ch = "%" -> plain(L, "Percent")
      [] ch = "&" -> either(L, "&", "And", "Amp")
      [] ch = "|" -> either(L, "|", "Or", "Pipe")
      [] ch = ":" -> either(L, ":", "DoubleColon", "Colon")
      [] ch = "!" -> either(L, "=", "NotEq", "Bang")
      [] ch = "=" -> either(L, "=", "EqEq", "Eq")
      [] ch = "<" -> lex_less(L)
      [] ch = ">" -> lex_greater(L)
      [] ch = "." -> lex_dot(L)

\* One iteration of the loop of lex_string decoding an escape as lex_char
\* does: the backslash of an unknown escape is dropped.
string_step_drop_backslash(value, escaped, ch) ==
    IF escaped
    THEN [value |-> CASE ch = "n" -> Append(value, "\n")
                      [] ch = "r" -> Append(value, "\r")
                      [] ch = "t" -> Append(value, "\t")
                      [] OTHER -> Append(value, ch),
          escaped |-> FALSE, done |-> FALSE]
    ELSE IF ch = "\\" THEN [value |-> value, escaped |-> TRUE, done |-> FALSE]
    ELSE IF ch = "\"" THEN [value |-> value, escaped |-> FALSE, done |-> TRUE]
    ELSE [value |-> Append(value, ch), escaped |-> FALSE, done |-> FALSE]

\* Lexer::lex_string, one iteration of the loop on the character ch: the
\* locals value and escaped after it, and whether it returned the String.
string_step(value, escaped, ch) ==
    IF escaped
    THEN [value |-> CASE ch = "n" -> Append(value, "\n")
                      [] ch = "r" -> Append(value, "\r")
                      [] ch = "t" -> Append(value, "\t")
                      [] ch = "\\" -> Append(value, "\\")
                      [] ch = "\"" -> Append(value, "\"")
                      [] OTHER -> Append(Append(value, "\\"), ch),
          escaped |-> FALSE, done |-> FALSE]
    ELSE IF ch = "\\" THEN [value |-> value, escaped |-> TRUE, done |-> FALSE]
    ELSE IF ch = "\"" THEN [value |-> value, escaped |-> FALSE, done |-> TRUE]
    ELSE [value |-> Append(value, ch), escaped |-> FALSE, done |-> FALSE]

\* The match of lex_identifier done on the start of the text: a run that
\* starts with `for` is the keyword.
keyword_by_prefix(ident) ==
    IF Len(ident) >= 3 /\ SubSeq(ident, 1, 3) = <<"f", "o", "r">>
    THEN Some("For", <<>>)
    ELSE Some("Identifier", ident)

\* The match of lex_identifier giving `true` and `false` the keyword tags
\* True and False that token.rs declares.
keyword_true_false(ident) ==
    CASE ident = <<"b", "r", "e", "a", "k">> -> Some("Break", <<>>)
      [] ident = <<"c", "o", "n", "s", "t">> -> Some("Const", <<>>)
      [] ident = <<"c", "o", "n", "t", "i", "n", "u", "e">> -> Some("Continue", <<>>)
      [] ident = <<"e", "n", "u", "m">> -> Some("Enum", <<>>)
      [] ident = <<"f", "n">> -> Some("Fn", <<>>)
      [] ident = <<"f", "o", "r">> -> Some("For", <<>>)
      [] ident = <<"l", "e", "t">> -> Some("Let", <<>>)
      [] ident = <<"l", "o", "o", "p">> -> Some("Loop", <<>>)
      [] ident = <<"m", "a", "t", "c", "h">> -> Some("Match", <<>>)
      [] ident = <<"m", "o", "d">> -> Some("Mod", <<>>)
      [] ident = <<"m", "u", "t">> -> Some("Mut", <<>>)
      [] ident = <<"p", "r", "o", "t", "o">> -> Some("Proto", <<>>)
      [] ident = <<"p", "u", "b">> -> Some("Pub", <<>>)
      [] ident = <<"s", "t", "r", "u", "c", "t">> -> Some("Struct", <<>>)
      [] ident = <<"u", "s", "e">> -> Some("Use", <<>>)
      [] ident = <<"w", "h", "i", "l", "e">> -> Some("While", <<>>)
      [] ident = <<"f", "a", "l", "s", "e">> -> Some("False", <<>>)
      [] ident = <<"t", "r", "u", "e">> -> Some("True", <<>>)
      [] OTHER -> Some("Identifier", ident)

\* Lexer::lex_identifier, the match on the text of the identifier.
keyword(ident) ==
    CASE ident = <<"b", "r", "e", "a", "k">> -> Some("Break", <<>>)
      [] ident = <<"c", "o", "n", "s", "t">> -> Some("Const", <<>>)
      [] ident = <<"c", "o", "n", "t", "i", "n", "u", "e">> -> Some("Continue", <<>>)
      [] ident = <<"e", "n", "u", "m">> -> Some("Enum", <<>>)
      [] ident = <<"f", "n">> -> Some("Fn", <<>>)
      [] ident = <<"f", "o", "r">> -> Some("For", <<>>)
      [] ident = <<"l", "e", "t">> -> Some("Let", <<>>)
      [] ident = <<"l", "o", "o", "p">> -> Some("Loop", <<>>)
      [] ident = <<"m", "a", "t", "c", "h">> -> Some("Match", <<>>)
      [] ident = <<"m", "o", "d">> -> Some("Mod", <<>>)
      [] ident = <<"m", "u", "t">> -> Some("Mut", <<>>)
      [] ident = <<"p", "r", "o", "t", "o">> -> Some("Proto", <<>>)
      [] ident = <<"p", "u", "b">> -> Some("Pub", <<>>)
      [] ident = <<"s", "t", "r", "u", "c", "t">> -> Some("Struct", <<>>)
      [] ident = <<"u", "s", "e">> -> Some("Use", <<>>)
      [] ident = <<"w", "h", "i", "l", "e">> -> Some("While", <<>>)
      [] ident = <<"f", "a", "l", "s", "e">> -> Some("Bool", <<"f", "a", "l", "s", "e">>)
      [] ident = <<"t", "r", "u", "e">> -> Some("Bool", <<"t", "r", "u", "e">>)
      [] OTHER -> Some("Identifier", ident)

\* Span with its two fields taken one for the other.
span_swapped(start, end) == [start |-> end, end |-> start]

\* token.rs: Span and WithSpan
Span(start, end) == [start |-> start, end |-> end]

WithSpan(value, span) == [value |-> value, span |-> span]

\* What a pull returns: Some(WithSpan), None, or nothing (it panicked);
\* "Start" before the first pull.
Returned(tag, value, span) == [tag |-> tag, value |-> value, span |-> span]

(***************************************************************************)
(* The running pull: its lexer, its locals and its control.                *)
(***************************************************************************)

\* *self
self == Lexer(chars, pos)

\* The locals of a pull, before any is assigned:
\*   start        Iterator::next, `let start` (line 346)
\*   ch           Lexer::lex, `let ch` (line 269)
\*   from, x, ret consume_while: its `start`, its predicate, where it returns
\*   lit          `start` of lex_number, lex_identifier and lex_comment
\*   is_negative, is_float         lex_number
\*   value, escaped                lex_string
\*   tok          the Option<Token> that Lexer::lex returns
NoLocals ==
    [start |-> 0, ch |-> NoChar, from |-> 0, x |-> Closure("none", NoChar),
     ret |-> "idle", lit |-> 0, is_negative |-> FALSE, is_float |-> FALSE,
     value |-> <<>>, escaped |-> FALSE, tok |-> NoToken("Start")]

\* No pull of another lexer is remembered.
NoMemo ==
    [set |-> FALSE, before |-> 0, value |-> NoToken("Start"), start |-> 0,
     advance |-> 0]

\* One step inside a pull: the lexer becomes L, control goes to target.
Step(L, target, loc) ==
    /\ chars' = L.chars
    /\ pos' = L.pos
    /\ pc' = target
    /\ local' = loc
    /\ UNCHANGED <<source, result, tokens, entry, fault, memo>>

\* A panic (slice index off a character boundary, subtraction or negation
\* overflow): the pull never returns.
Panicked(L) ==
    /\ chars' = L.chars
    /\ pos' = L.pos
    /\ pc' = "panicked"
    /\ local' = local
    /\ fault' = TRUE
    /\ result' = Returned("Panic", NoToken("Panic"), Span(0, 0))
    /\ UNCHANGED <<source, tokens, entry, memo>>

\* A call of consume_while(x) in state L, returning to ret: line 73.
Call_consume_while(L, loc, x, ret) ==
    Step(L, "consume_while", [loc EXCEPT !.from = L.pos, !.x = x, !.ret = ret])

\* Lexer::lex returns tok, the lexer being in state L.
Yield(L, loc, tok) == Step(L, "return", [loc EXCEPT !.tok = tok])

\* <Lexer as Iterator>::next, line 345: the call of skip_whitespace, which
\* calls consume_while(is_whitespace).
IteratorNext ==
    /\ pc = "idle"
    /\ chars' = chars
    /\ pos' = pos
    /\ pc' = "consume_while"
    /\ local' = [NoLocals EXCEPT !.from = pos,
                                 !.x = Closure("is_whitespace", NoChar),
                                 !.ret = "lex"]
    /\ entry' = self
    /\ UNCHANGED <<source, result, tokens, fault, memo>>

\* consume_while forgetting line 76: the character is peeked, never consumed.
consume_while_no_next ==
    /\ pc = "consume_while"
    /\ peek(self) # NoChar
    /\ Apply(local.x, peek(self))
    /\ Step(self, "consume_while", local)

\* Lexer::consume_while, one iteration of the loop that consumes (74-76).
consume_while_loop ==
    /\ pc = "consume_while"
    /\ peek(self) # NoChar
    /\ Apply(local.x, peek(self))
    /\ Step(next(self), "consume_while", local)

\* Lexer::consume_while, the exit of the loop and the slice of line 81.
consume_while_return ==
    /\ pc = "consume_while"
    /\ ~(peek(self) # NoChar /\ Apply(local.x, peek(self)))
    /\ IF get(local.from, pos).some
       THEN Step(self, local.ret, local)
       ELSE Panicked(self)

\* Lexer::lex_number, lines 107-108; L is the state after ch (and, for a
\* negative number, the first digit) was consumed.
Call_lex_number(L, loc, ch, is_negative) ==
    IF L.pos < len_utf8(ch)
    THEN Panicked(L)
    ELSE Call_consume_while(L,
             [loc EXCEPT !.lit = L.pos - len_utf8(ch),
                         !.is_negative = is_negative],
             Closure("is_digit", NoChar), "lex_number_dot")

\* Lexer::lex on the end of the input: `self.next()?` returns None.
lex_eof ==
    /\ pc = "lex"
    /\ peek(self) = NoChar
    /\ Yield(next(self), [local EXCEPT !.start = pos], NoToken("Eof"))

\* Lexer::lex, the arms of punctuation and operators (271-289, 299-327).
lex_operator ==
    /\ pc = "lex"
    /\ peek(self) \in Punctuation
    /\ LET ch == peek(self)
           r == lex_punctuation(next(self), ch)
       IN Yield(r.L, [local EXCEPT !.start = pos, !.ch = ch], r.tok)

\* The arm of '-' looking at the token before: right after an identifier or
\* a number a '-' is the operator, whatever follows.
lex_minus_after_operand ==
    /\ pc = "lex"
    /\ peek(self) = "-"
    /\ LET ch == peek(self)
           loc == [local EXCEPT !.start = pos, !.ch = ch]
           digit == consume_if(next(self), Closure("is_digit", NoChar))
           gt == consume_if(next(self), Closure("eq", ">"))
           operand == /\ tokens # <<>>
                      /\ tokens[Len(tokens)].span.end = pos
                      /\ tokens[Len(tokens)].value.kind \in
                            {"Identifier", "Int", "Float"}
       IN IF digit.hit /\ ~operand THEN Call_lex_number(digit.L, loc, ch, TRUE)
          ELSE IF gt.hit THEN Yield(gt.L, loc, Some("Arrow", <<>>))
          ELSE Yield(next(self), loc, Some("Minus", <<>>))

\* Lexer::lex, the arm of '-' (290-298).
lex_minus ==
    /\ pc = "lex"
    /\ peek(self) = "-"
    /\ LET ch == peek(self)
           loc == [local EXCEPT !.start = pos, !.ch = ch]
           digit == consume_if(next(self), Closure("is_digit", NoChar))
           gt == consume_if(next(self), Closure("eq", ">"))
       IN IF digit.hit THEN Call_lex_number(digit.L, loc, ch, TRUE)
          ELSE IF gt.hit THEN Yield(gt.L, loc, Some("Arrow", <<>>))
          ELSE Yield(next(self), loc, Some("Minus", <<>>))

\* Lexer::lex, the arm of '0'..='9' (331).
lex_digit ==
    /\ pc = "lex"
    /\ peek(self) \in Digits
    /\ LET ch == peek(self)
       IN Call_lex_number(next(self), [local EXCEPT !.start = pos, !.ch = ch],
                          ch, FALSE)

\* Lexer::lex, the arm of '"' (329), and lines 131-132 of lex_string.
lex_quote ==
    /\ pc = "lex"
    /\ peek(self) = "\""
    /\ Step(next(self), "lex_string",
            [local EXCEPT !.start = pos, !.ch = "\"",
                          !.value = <<>>, !.escaped = FALSE])

\* Lexer::lex, the arm of '\'' (330): lex_char has no loop.
lex_apostrophe ==
    /\ pc = "lex"
    /\ peek(self) = "'"
    /\ LET r == lex_char(next(self))
       IN Yield(r.L, [local EXCEPT !.start = pos, !.ch = "'"], r.tok)

\* Lexer::lex, the arm of '#' (328), and lex_comment up to the loop it
\* enters (230-232, 258-259).
lex_hash ==
    /\ pc = "lex"
    /\ peek(self) = "#"
    /\ LET loc == [local EXCEPT !.start = pos, !.ch = "#"]
           star == consume_if(next(self), Closure("eq", "*"))
       IN IF star.hit
          THEN Step(star.L, "lex_comment", [loc EXCEPT !.lit = star.L.pos])
          ELSE Call_consume_while(next(self),
                   [loc EXCEPT !.lit = next(self).pos],
                   Closure("ne", "\n"), "lex_line_comment")

\* Lexer::lex, the arm of letters and '_' (332), and lines 198-199 of
\* lex_identifier.
lex_letter ==
    /\ pc = "lex"
    /\ peek(self) \in Lower \cup Upper \cup {"_"}
    /\ LET ch == peek(self)
           L == next(self)
       IN IF L.pos < len_utf8(ch)
          THEN Panicked(L)
          ELSE Call_consume_while(L,
                   [local EXCEPT !.start = pos, !.ch = ch,
                                 !.lit = L.pos - len_utf8(ch)],
                   Closure("ident", NoChar), "lex_identifier")

\* Lexer::lex, the last arm (333).
lex_unknown ==
    /\ pc = "lex"
    /\ peek(self) # NoChar
    /\ peek(self) \notin Punctuation \cup Digits \cup Lower \cup Upper
                         \cup {"-", "#", "\"", "'", "_"}
    /\ LET ch == peek(self)
       IN Yield(next(self), [local EXCEPT !.start = pos, !.ch = ch],
                Some("Unknown", <<ch>>))

\* Lexer::lex_number, lines 109-111: the '.' and the call that consumes the
\* digits after it.
lex_number_dot ==
    /\ pc = "lex_number_dot"
    /\ LET dot == consume_if(self, Closure("eq", "."))
       IN IF dot.hit
          THEN Call_consume_while(dot.L, [local EXCEPT !.is_float = TRUE],
                                  Closure("is_digit", NoChar),
                                  "lex_number_parse")
          ELSE Step(self, "lex_number_parse",
                    [local EXCEPT !.is_float = FALSE])

\* Lexer::lex_number, lines 112-123: the slice, the parse and the sign.
lex_number_parse ==
    /\ pc = "lex_number_parse"
    /\ LET r == number_token(get(local.lit, pos), local.is_float,
                             local.is_negative)
       IN IF r.panic THEN Panicked(self) ELSE Yield(self, local, r.tok)

\* Lexer::lex_string, one iteration of the loop (134-155).
lex_string_loop ==
    /\ pc = "lex_string"
    /\ peek(self) # NoChar
    /\ LET r == string_step(local.value, local.escaped, peek(self))
           loc == [local EXCEPT !.value = r.value, !.escaped = r.escaped]
       IN IF r.done
          THEN Yield(next(self), loc, Some("String", r.value))
          ELSE Step(next(self), "lex_string", loc)

\* The end of the input inside a string literal, carrying the text read so
\* far as an unterminated comment does.
lex_string_eof_partial ==
    /\ pc = "lex_string"
    /\ peek(self) = NoChar
    /\ Yield(next(self), local, Some("UnterminatedString", local.value))

\* Lexer::lex_string, the end of the input inside the literal (158).
lex_string_eof ==
    /\ pc = "lex_string"
    /\ peek(self) = NoChar
    /\ Yield(next(self), local, Some("UnterminatedString", <<>>))

\* Lexer::lex_identifier, lines 201-223.
lex_identifier ==
    /\ pc = "lex_identifier"
    /\ LET ident == get(local.lit, pos)
       IN Yield(self, local,
                IF ident.some THEN keyword(ident.s) ELSE NoToken("Slice"))

\* The loop of lex_comment keeping the cursor after "*#", not the position
\* before it, as the end of the text.
lex_comment_loop_with_closer ==
    /\ pc = "lex_comment"
    /\ peek(self) # NoChar
    /\ LET ch == peek(self)
           L == next(self)
           text == get(local.lit, next(L).pos)
       IN IF ch = "*" /\ peek(L) = "#"
          THEN IF text.some
               THEN Yield(next(L), local, Some("Comment", text.s))
               ELSE Panicked(next(L))
          ELSE Step(L, "lex_comment", local)

\* Lexer::lex_comment, one iteration of the loop (235-246) and, when it
\* breaks on "*#", the slice of line 249.
lex_comment_loop ==
    /\ pc = "lex_comment"
    /\ peek(self) # NoChar
    /\ LET ch == peek(self)
           pos_before == pos
           L == next(self)
           text == get(local.lit, pos_before)
       IN IF ch = "*" /\ peek(L) = "#"
          THEN IF text.some
               THEN Yield(next(L), local, Some("Comment", text.s))
               ELSE Panicked(next(L))
          ELSE Step(L, "lex_comment", local)

\* Lexer::lex_comment, the end of the input inside the comment (250-254).
lex_comment_eof ==
    /\ pc = "lex_comment"
    /\ peek(self) = NoChar
    /\ LET text == get(local.lit, pos)
       IN IF text.some
          THEN Yield(self, local, Some("UnterminatedComment", text.s))
          ELSE Panicked(self)

\* The text of a single-line comment taken from the "#" on.
lex_line_comment_with_hash ==
    /\ pc = "lex_line_comment"
    /\ LET text == get(local.start, pos)
       IN IF text.some
          THEN Yield(self, local, Some("Comment", text.s))
          ELSE Panicked(self)

\* Lexer::lex_comment, line 260: the text of a single-line comment.
lex_line_comment ==
    /\ pc = "lex_line_comment"
    /\ LET text == get(local.lit, pos)
       IN IF text.some
          THEN Yield(self, local, Some("Comment", text.s))
          ELSE Panicked(self)

\* <Lexer as Iterator>::next, lines 347-352: `?` on the token, the span.
IteratorReturn ==
    /\ pc = "return"
    /\ pc' = "idle"
    /\ local' = NoLocals
    /\ IF local.tok.some
       THEN /\ result' = Returned("Some", local.tok, Span(local.start, pos))
            /\ tokens' = Append(tokens,
                                WithSpan(local.tok, Span(local.start, pos)))
       ELSE /\ result' = Returned("None", local.tok, Span(0, 0))
            /\ tokens' = tokens
    /\ memo' = NoMemo
    /\ UNCHANGED <<source, chars, pos, entry, fault>>

\* Lexer::new
New(src) ==
    /\ source = src
    /\ chars = 0
    /\ pos = 0
    /\ pc = "idle"
    /\ local = NoLocals
    /\ result = Returned("Start", NoToken("Start"), Span(0, 0))
    /\ tokens = <<>>
    /\ entry = Lexer(0, 0)
    /\ fault = FALSE
    /\ memo = NoMemo

\* Lexer::new on the text from the cursor at which the last pull started: a
\* second lexer, whose source is that text alone.  What the last pull
\* returned and how far it moved the cursor are remembered until the first
\* pull of the new lexer returns.
NewOnRest ==
    /\ pc = "idle"
    /\ result.tag \in {"Some", "None"}
    /\ entry.chars > 0
    /\ source' = SubSeq(source, entry.chars + 1, Len(source))
    /\ chars' = 0
    /\ pos' = 0
    /\ pc' = "idle"
    /\ local' = NoLocals
    /\ result' = Returned("Start", NoToken("Start"), Span(0, 0))
    /\ tokens' = <<>>
    /\ entry' = Lexer(0, 0)
    /\ fault' = fault
    /\ memo' = [set |-> TRUE,
                before |-> entry.chars,
                value |-> result.value,
                start |-> IF result.tag = "Some"
                          THEN result.span.start - entry.pos ELSE 0,
                advance |-> pos - entry.pos]

(***************************************************************************)
(* The sources the lexer is run on.                                        *)
(***************************************************************************)

\* The longest source over Alphabet, over OpAlphabet, over Vocabulary, the
\* longest text after the eighteen leading digits of a big number, the
\* longest text after a word, the longest after an opening quote, and the
\* longest after a "#".
MaxLen == 3

MaxOpLen == 3

MaxVocLen == 2

MaxTail == 2

MaxWordTail == 1

MaxLit == 3

MaxCom == 4

\* Every sequence over A of length at most n.
Strings(A, n) == UNION {[1..k -> A] : k \in 0..n}

\* Characters of every lexeme class: whitespace of one and of three bytes,
\* a digit, the sign, the dot, the quotes, the escape, the comment
\* delimiters, a letter that is also an escape, and a character of two
\* bytes that begins no lexeme.
Alphabet ==
    {" ", "\n", "U+3000", "1", ".", "-", "\"", "\\", "'", "#", "*", "n",
     "U+00E9"}

\* The characters that begin or continue an operator of more than one
\* character ('|' and ':' double like '&'), and a digit.
OpAlphabet == {"&", "!", "=", "-", ">", "<", ".", "1", " "}

\* Every character of the operator and punctuation vocabulary.
Vocabulary ==
    {"(", ")", "[", "]", "{", "}", ",", ";", ":", "-", ">", ".", "=", "&",
     "|", "!", "<", "+", "*", "/", "%", "^", "~"}

\* The first eighteen digits of 2^63.
Big18 == <<"9", "2", "2", "3", "3", "7", "2", "0", "3", "6",
           "8", "5", "4", "7", "7", "5", "8", "0">>

\* Digit runs around 2^63 - 1, after nothing, a sign, a zero, a token or a
\* character that is no token, and followed by a short text.
BigSources ==
    {pre \o Big18 \o tail :
        pre \in {<<>>, <<"-">>, <<"0">>, <<"-", "0">>, <<"1", " ">>,
                 <<"a", "-">>, <<"U+00E9">>},
        tail \in Strings({"0", "7", "8", "9", ".", " ", "a"}, MaxTail)}

\* The sources of the unit tests of lexer.rs.
Tests ==
    {
        \* test_operators :371
        <<"&", " ", "&", "&", " ", "-", ">", " ", "!", " ", "^", " ", "=",
          " ", "=", "=", " ", ">", "=", " ", ">", " ", "<", "=", " ", "<",
          " ", "<", "<", " ", "-", " ", "!", "=", " ", "|", "|", " ", "%",
          " ", "|", " ", "+", " ", ".", ".", " ", ".", ".", "=", " ", ">",
          ">", " ", "/", " ", "*", " ", "~">>,
        \* test_punctuation :405
        <<":", " ", ",", " ", ".", " ", ":", ":", " ", "{", " ", "[", " ",
          "(", " ", ")", " ", "]", " ", "}", " ", ";">>,
        \* test_numbers :426
        <<"1", "0", " ", "-", "1", "0", " ", "1", "0", ".", "5", " ", "-",
          "1", "0", ".", "5", " ", "1", "1", ".">>,
        \* test_strings :441
        <<"\"", "h", "e", "l", "l", "o", "\"", " ", "\"", "w", "o", "r",
          "l", "d", "\"", " ", "\"", "e", "s", "c", "a", "p", "e", "d",
          " ", "\\", "\"", "q", "u", "o", "t", "e", "\\", "\"", "\"", " ",
          "\"", "n", "e", "w", "\\", "n", "l", "i", "n", "e", "\"">>,
        \* test_empty_string :455
        <<"\"", "\"">>,
        \* test_string_with_escapes :461
        <<"\"", "l", "i", "n", "e", "1", "\\", "n", "l", "i", "n", "e",
          "2", "\"", " ", "\"", "t", "a", "b", "\\", "t", "s", "e", "p",
          "a", "r", "a", "t", "e", "d", "\"">>,
        \* test_unterminated_string :473
        <<"\"", "m", "i", "s", "s", "i", "n", "g", " ", "e", "n", "d">>,
        \* test_invalid_escape_sequence :479
        <<"\"", "i", "n", "v", "a", "l", "i", "d", " ", "\\", "q", " ",
          "e", "s", "c", "a", "p", "e", "\"">>,
        \* test_valid_chars :489
        <<"'", "A", "'", " ", "'", "1", "'", " ", "'", " ", "'">>,
        \* test_valid_escapes :498
        <<"'", "\\", "n", "'", " ", "'", "\\", "t", "'", " ", "'", "\\",
          "'", "'", " ", "'", "\\", "\\", "'">>,
        \* test_unterminated_char :512
        <<"'", "\\", "n">>,
        \* test_invalid_char_literal :518
        <<"'", "A", "B", "'">>,
        \* test_identifiers :528
        <<"b", "r", "e", "a", "k", " ", "c", "o", "n", "s", "t", " ", "c",
          "o", "n", "t", "i", "n", "u", "e", " ", "e", "n", "u", "m", " ",
          "f", "n", " ", "f", "o", "r", " ", "l", "e", "t", " ", "l", "o",
          "o", "p", " ", "m", "a", "t", "c", "h", " ", "m", "o", "d", " ",
          "m", "u", "t", " ", "p", "r", "o", "t", "o", " ", "p", "u", "b",
          " ", "s", "t", "r", "u", "c", "t", " ", "u", "s", "e", " ", "w",
          "h", "i", "l", "e", " ", "i", "d", "e", "n", "t">>,
        \* test_booleans :556
        <<"t", "r", "u", "e", " ", "f", "a", "l", "s", "e">>,
        \* test_single_line_comment :562
        <<"#", " ", "T", "h", "i", "s", " ", "i", "s", " ", "a", " ", "s",
          "i", "n", "g", "l", "e", "-", "l", "i", "n", "e", " ", "c", "o",
          "m", "m", "e", "n", "t">>,
        \* test_multi_line_comment :571
        <<"#", "*", " ", "T", "h", "i", "s", " ", "i", "s", "\n", "a", " ",
          "m", "u", "l", "t", "i", "-", "l", "i", "n", "e", "\n", "c", "o",
          "m", "m", "e", "n", "t", " ", "*", "#">>
    }

\* Sources the documentation names: the range expressions of ast.rs:415,
\* and maximal-munch cases.
Examples ==
    {<<"1", ".", ".", "5">>,
     <<"1", ".", ".", "=", "5">>,
     <<"1", "0", " ", ".", ".", " ", "2", "0">>,
     <<"<", "<", "=">>,
     <<".", ".", ".">>,
     <<"a", "-", "1">>,
     <<"f", "o", "r", "e", "v", "e", "r">>,
     <<"#", "*", " ", "a", " ", "*", "#">>,
     <<"#", "*", "#">>,
     <<"'", "U+00E9", "'", " ", "\"", "U+20AC", "\"">>,
     <<"#", "U+00E9", "\n", "U+0663", "U+2003", "x">>,
     <<"_", "x", "1", "U+1F600", "U+0085", "U+00A0", "X", "_">>,
     <<"-", "U+0663">>,
     <<"@", "U+20AC", "$", "U+1F600", "?", "U+00E9">>}

\* The reserved words, and runs that differ from one in case or length.
Words ==
    {<<"b", "r", "e", "a", "k">>,
     <<"c", "o", "n", "s", "t">>,
     <<"c", "o", "n", "t", "i", "n", "u", "e">>,
     <<"e", "n", "u", "m">>,
     <<"f", "n">>,
     <<"f", "o", "r">>,
     <<"l", "e", "t">>,
     <<"l", "o", "o", "p">>,
     <<"m", "a", "t", "c", "h">>,
     <<"m", "o", "d">>,
     <<"m", "u", "t">>,
     <<"p", "r", "o", "t", "o">>,
     <<"p", "u", "b">>,
     <<"s", "t", "r", "u", "c", "t">>,
     <<"u", "s", "e">>,
     <<"w", "h", "i", "l", "e">>,
     <<"f", "a", "l", "s", "e">>,
     <<"t", "r", "u", "e">>,
     <<"F", "o", "r">>,
     <<"T", "R", "U", "E">>,
     <<"F", "a", "l", "s", "e">>,
     <<"f", "o">>,
     <<"_">>,
     <<"x", "1">>}

\* A word, then up to MaxWordTail characters that continue or end the run.
WordSources ==
    {w \o tail : w \in Words,
                 tail \in Strings({"e", "_", "1", "R", " ", "-"}, MaxWordTail)}

\* The characters of a string or character literal: the two quotes, the
\* escape, the letters of the escapes, and a letter that is no escape.
LitAlphabet == {"\"", "'", "\\", "n", "r", "t", "q"}

\* A quote, then up to MaxLit characters.
LitSources ==
    {<<quote>> \o s : quote \in {"\"", "'"}, s \in Strings(LitAlphabet, MaxLit)}

\* The characters of a comment: its delimiters, the end of a line, a
\* letter and a character of two bytes.
ComAlphabet == {"#", "*", "\n", "a", "U+00E9"}

\* A "#", then up to MaxCom characters.
ComSources == {<<"#">> \o s : s \in Strings(ComAlphabet, MaxCom)}

Sources ==
    Strings(Alphabet, MaxLen) \cup Strings(OpAlphabet, MaxOpLen)
        \cup Strings(Vocabulary, MaxVocLen) \cup BigSources \cup Tests
        \cup Examples \cup WordSources \cup LitSources \cup ComSources

Init == \E src \in Sources : New(src)

Next ==
    \/ IteratorNext
    \/ consume_while_loop
    \/ consume_while_return
    \/ lex_eof
    \/ lex_operator
    \/ lex_minus
    \/ lex_digit
    \/ lex_quote
    \/ lex_apostrophe
    \/ lex_hash
    \/ lex_letter
    \/ lex_unknown
    \/ lex_number_dot
    \/ lex_number_parse
    \/ lex_string_loop
    \/ lex_string_eof
    \/ lex_identifier
    \/ lex_comment_loop
    \/ lex_comment_eof
    \/ lex_line_comment
    \/ IteratorReturn
    \/ NewOnRest

Spec == Init /\ [][Next]_vars

\* The sources of the runs whose progress is checked: every text of up
\* to MaxLiveLen characters that start or stop a scanning loop, the unit
\* tests and the examples.
MaxLiveLen == 2

LiveAlphabet == {" ", "1", ".", "-", "\"", "#", "*", "a", "U+00E9"}

LiveSources == Strings(LiveAlphabet, MaxLiveLen) \cup Tests \cup Examples

LiveInit == \E src \in LiveSources : New(src)

\* The pull that runs keeps running, and one caller keeps pulling.
FairSpec == LiveInit /\ [][Next]_vars /\ WF_vars(Next)

(***************************************************************************)
(* What the claims speak of.                                               *)
(***************************************************************************)

\* A pull has returned and none is running.
Pulled == pc = "idle" /\ result.tag # "Start"

\* The byte offset after the first i characters.
Offset(i) == byte_len(SubSeq(source, 1, i))

SourceBytes == Offset(Len(source))

\* The characters number i + 1 .. j are all whitespace.
Blank(i, j) == \A k \in (i + 1)..j : is_whitespace(source[k])

\* The number of characters before the lexeme of the last pull: the first
\* character at or after the entry cursor that is no whitespace, or the
\* length of the source when there is none.
LexemeAt ==
    CHOOSE j \in entry.chars..Len(source) :
        Blank(entry.chars, j) /\ (j = Len(source) \/ ~is_whitespace(source[j + 1]))

\* Character number i of the source, NoChar outside it.
CharAt(i) == IF i \in 1..Len(source) THEN source[i] ELSE NoChar

\* Character number k lies inside the span of token number t.
InSpan(k, t) ==
    tokens[t].span.start <= Offset(k - 1) /\ Offset(k) <= tokens[t].span.end

\* The character that starts at byte offset b, NoChar when none does.
CharAtByte(b) ==
    IF \E i \in 0..(Len(source) - 1) : Offset(i) = b
    THEN source[(CHOOSE i \in 0..(Len(source) - 1) : Offset(i) = b) + 1]
    ELSE NoChar

Kinds == [t \in 1..Len(tokens) |-> tokens[t].value.kind]

\* The pulls have reached the end-of-stream signal.
Ended == pc = "idle" /\ result.tag = "None"

\* The number of characters before the end of the longest run of decimal
\* digits that starts after the first i characters.
RunEnd(i) ==
    CHOOSE e \in i..Len(source) :
        /\ \A k \in (i + 1)..e : is_digit(source[k])
        /\ ~is_digit(CharAt(e + 1))

\* The magnitude of a digit run is above 2^63 - 1.
Overflows(run) == ~dec_leq(strip_leading_zeros(run), I64_MAX)

(***************************************************************************)
(* The claims.                                                             *)
(***************************************************************************)

\* C1: a pull returns end-of-stream only when no character other than
\* whitespace remains at or after the cursor it started from; whenever one
\* remains, the pull returns a token.
C1_EndOnlyWhenExhausted ==
    Pulled => (LexemeAt < Len(source) <=> result.tag = "Some")

\* C2: when the pulls have reached end-of-stream, every character of the
\* source is whitespace or lies inside the span of a produced token, and
\* every span starts at a character that is no whitespace.
C2_SpansCoverSource ==
    Ended =>
        /\ \A k \in 1..Len(source) :
              is_whitespace(source[k]) \/ \E t \in 1..Len(tokens) : InSpan(k, t)
        /\ \A t \in 1..Len(tokens) :
              /\ CharAtByte(tokens[t].span.start) # NoChar
              /\ ~is_whitespace(CharAtByte(tokens[t].span.start))

\* C3: every produced token has 0 <= span.start <= span.end <= the byte
\* length of the source, and of any two tokens the earlier one ends at or
\* before the start of the later one.
C3_SpansOrdered ==
    /\ \A t \in 1..Len(tokens) :
          /\ 0 <= tokens[t].span.start
          /\ tokens[t].span.start <= tokens[t].span.end
          /\ tokens[t].span.end <= SourceBytes
    /\ \A t1, t2 \in 1..Len(tokens) :
          t1 < t2 => tokens[t1].span.end <= tokens[t2].span.start

\* C3's case: three tokens with whitespace between them, of three bytes
\* between the last two.
C3_Witness ==
    /\ Len(tokens) >= 3
    /\ tokens[2].span.start > tokens[1].span.end
    /\ tokens[3].span.start - tokens[2].span.end >= 3

\* C4: a pull that starts with the cursor before the end of the source
\* leaves it at least one byte further, at no step of a pull is the cursor
\* behind where the pull started, and every produced token has a span that
\* is not empty.
C4_CursorAdvances ==
    /\ pos >= entry.pos
    /\ Pulled /\ entry.pos < SourceBytes => pos > entry.pos
    /\ \A t \in 1..Len(tokens) : tokens[t].span.start < tokens[t].span.end

\* C4's case: a pull that started before the end of the source returned no
\* token (only whitespace was left) and yet moved the cursor.
C4_Witness ==
    /\ Ended
    /\ entry.pos < SourceBytes
    /\ pos > entry.pos
    /\ Len(tokens) >= 1

\* C5: pulling again and again reaches end-of-stream, every pull that runs
\* returns (its scanning loops terminate), and never are more tokens
\* produced than the source has bytes.
C5_Terminates ==
    /\ [](Len(tokens) <= SourceBytes)
    /\ (pc # "idle") ~> (pc = "idle")
    /\ <>Ended

\* C5's case: end-of-stream after as many tokens as the source has bytes.
C5_Witness ==
    /\ Ended
    /\ Len(tokens) = SourceBytes
    /\ Len(tokens) >= 2

\* C6: no pull panics: wherever a scanner is about to slice the source,
\* the slice start..pos has start <= pos <= the length of the source with
\* both ends on character boundaries, so that no index panics and no
\* str::get gives None; no subtraction underflows and no negation overflows.
C6_NoFault ==
    /\ ~fault
    /\ pc # "panicked"
    /\ local.tok.kind # "Slice"
    /\ pc = "consume_while" =>
          /\ local.from <= pos /\ pos <= SourceBytes
          /\ is_char_boundary(local.from) /\ is_char_boundary(pos)
    /\ pc \in {"lex_number_dot", "lex_number_parse", "lex_identifier",
               "lex_comment", "lex_line_comment"} =>
          /\ local.lit <= pos /\ pos <= SourceBytes
          /\ is_char_boundary(local.lit) /\ is_char_boundary(pos)

\* C6's case: tokens sliced out of the source after a character of more
\* than one byte: a comment, a number and an identifier.
C6_Witness ==
    /\ Len(tokens) >= 2
    /\ \E i \in 1..Len(source) : len_utf8(source[i]) > 1 /\ Offset(i) <= tokens[2].span.start
    /\ tokens[2].value.kind \in {"Comment", "Int", "Float", "Identifier", "UnterminatedComment"}
    /\ tokens[2].value.text # <<>>

\* The text of the source between byte offsets a and b of a span.
Lexeme(span) == SubSeq(source, char_index(span.start) + 1, char_index(span.end))

\* C7: a digit run is lexed as a float only when a single "." follows it:
\* no Float token ends in a "." that another "." follows, and the range
\* expressions 1..5 and 1..=5 lex as Int, RangeExclusive (RangeInclusive),
\* Int.
C7_RangeAfterInt ==
    /\ \A t \in 1..Len(tokens) :
          tokens[t].value.kind = "Float" =>
              ~(/\ Lexeme(tokens[t].span)[Len(Lexeme(tokens[t].span))] = "."
                /\ CharAtByte(tokens[t].span.end) = ".")
    /\ Ended /\ source = <<"1", ".", ".", "5">> =>
          /\ Kinds = <<"Int", "RangeExclusive", "Int">>
          /\ tokens[1].value.text = <<"1">> /\ tokens[3].value.text = <<"5">>
    /\ Ended /\ source = <<"1", ".", ".", "=", "5">> =>
          /\ Kinds = <<"Int", "RangeInclusive", "Int">>
          /\ tokens[1].value.text = <<"1">> /\ tokens[3].value.text = <<"5">>

\* The i64 that is minus the magnitude written by a digit run.
Negated(run) ==
    IF strip_leading_zeros(run) = <<"0">> THEN <<"0">>
    ELSE <<"-">> \o strip_leading_zeros(run)

\* C8: when the lexeme of a pull starts with "-": before a decimal digit
\* the pull returns one number token whose span starts at the "-", Int(-n)
\* for the digit run n when no "." follows the run; otherwise before ">" it
\* returns Arrow; otherwise Minus with a span of one byte.
C8_MinusSign ==
    Pulled /\ CharAt(LexemeAt + 1) = "-" =>
        LET j == LexemeAt
            e == RunEnd(j + 1)
            run == SubSeq(source, j + 2, e)
        IN /\ result.tag = "Some"
           /\ result.span.start = Offset(j)
           /\ IF is_digit(CharAt(j + 2))
              THEN /\ result.value.kind \in {"Int", "Float"}
                   /\ CharAt(e + 1) # "." =>
                         /\ result.value.kind = "Int"
                         /\ result.value.text = Negated(run)
                         /\ result.span.end = Offset(e)
              ELSE IF CharAt(j + 2) = ">"
              THEN /\ result.value.kind = "Arrow"
                   /\ result.span.end = Offset(j) + 2
              ELSE /\ result.value.kind = "Minus"
                   /\ result.span.end = Offset(j) + 1

\* C9: when the lexeme of a pull is a digit run, after a "-" or not, that
\* no "." follows and whose magnitude is above 2^63 - 1, the pull returns
\* no token and leaves the cursor right after the run; the pull after it
\* starts there, after the last digit of the run.
C9_OverflowSkipsRun ==
    /\ Pulled =>
          LET j == LexemeAt
              d == IF CharAt(j + 1) = "-" THEN j + 1 ELSE j
              e == RunEnd(d)
          IN (/\ is_digit(CharAt(d + 1))
              /\ CharAt(e + 1) # "."
              /\ Overflows(SubSeq(source, d + 1, e))) =>
                 /\ result.tag = "None"
                 /\ chars = e
                 /\ pos = Offset(e)
    /\ pc # "idle" /\ result.tag = "None" /\ result.value.kind = "Parse" =>
          /\ is_digit(CharAt(entry.chars))
          /\ ~is_digit(CharAt(entry.chars + 1))
          /\ entry.pos = Offset(entry.chars)
          /\ pos >= entry.pos

\* C9's case: the run of 2^63 after a "-" gave no token, text follows the
\* run, and the next pull has returned a token that starts after the run.
C9_Witness ==
    /\ Pulled
    /\ result.tag = "Some"
    /\ \E j \in 0..Len(source) :
          /\ CharAt(j + 1) = "-"
          /\ SubSeq(source, j + 2, RunEnd(j + 1)) = I64_MIN_MAG
          /\ \A t \in 1..Len(tokens) : ~InSpan(j + 2, t)
          /\ result.span.start >= Offset(RunEnd(j + 1))
          /\ entry.chars = RunEnd(j + 1)

\* The operator and punctuation lexemes and their tokens.
Operators ==
    {<<<<"(">>, "LParen">>, <<<<")">>, "RParen">>, <<<<"[">>, "LBracket">>,
     <<<<"]">>, "RBracket">>, <<<<"{">>, "LBrace">>, <<<<"}">>, "RBrace">>,
     <<<<",">>, "Comma">>, <<<<";">>, "Semicolon">>, <<<<":">>, "Colon">>,
     <<<<":", ":">>, "DoubleColon">>, <<<<"-", ">">>, "Arrow">>,
     <<<<".">>, "Dot">>, <<<<".", ".">>, "RangeExclusive">>,
     <<<<".", ".", "=">>, "RangeInclusive">>, <<<<"&">>, "Amp">>,
     <<<<"&", "&">>, "And">>, <<<<"|">>, "Pipe">>, <<<<"|", "|">>, "Or">>,
     <<<<"!">>, "Bang">>, <<<<"!", "=">>, "NotEq">>, <<<<"=">>, "Eq">>,
     <<<<"=", "=">>, "EqEq">>, <<<<"<">>, "Lt">>, <<<<"<", "=">>, "Le">>,
     <<<<"<", "<">>, "LShift">>, <<<<">">>, "Gt">>, <<<<">", "=">>, "Ge">>,
     <<<<">", ">">>, "RShift">>, <<<<"+">>, "Plus">>, <<<<"-">>, "Minus">>,
     <<<<"*">>, "Star">>, <<<<"/">>, "Slash">>, <<<<"%">>, "Percent">>,
     <<<<"^">>, "Caret">>, <<<<"~">>, "Tilde">>}

\* The operators that are a prefix of the source after its first j
\* characters.
PrefixOperators(j) ==
    {op \in Operators :
        /\ j + Len(op[1]) <= Len(source)
        /\ SubSeq(source, j + 1, j + Len(op[1])) = op[1]}

\* The longest of them.
LongestOperator(j) ==
    CHOOSE op \in PrefixOperators(j) :
        \A other \in PrefixOperators(j) : Len(other[1]) <= Len(op[1])

\* C10: when the lexeme of a pull starts with an operator or punctuation
\* character, and is not "-" before a digit, the pull returns the token of
\* the longest operator that is a prefix of the rest of the source, with a
\* span as long as that operator.
C10_LongestOperator ==
    Pulled /\ PrefixOperators(LexemeAt) # {}
           /\ ~(CharAt(LexemeAt + 1) = "-" /\ is_digit(CharAt(LexemeAt + 2))) =>
        /\ result.tag = "Some"
        /\ result.value = Some(LongestOperator(LexemeAt)[2], <<>>)
        /\ result.span = Span(Offset(LexemeAt),
                              Offset(LexemeAt) + Len(LongestOperator(LexemeAt)[1]))

\* C10's case: <<= has given LShift, then Eq.
C10_Witness ==
    /\ Pulled
    /\ Len(tokens) >= 2
    /\ Lexeme(tokens[Len(tokens) - 1].span) = <<"<", "<">>
    /\ tokens[Len(tokens) - 1].value.kind = "LShift"
    /\ result.value.kind = "Eq"
    /\ result.span.start = tokens[Len(tokens) - 1].span.end

\* C10's other case: ... has given RangeExclusive, then Dot.
C10_WitnessDots ==
    /\ Pulled
    /\ Len(tokens) >= 2
    /\ Lexeme(tokens[Len(tokens) - 1].span) = <<".", ".">>
    /\ tokens[Len(tokens) - 1].value.kind = "RangeExclusive"
    /\ result.value.kind = "Dot"
    /\ result.span.start = tokens[Len(tokens) - 1].span.end

\* The number of characters before the end of the longest run of ASCII
\* letters, digits and "_" that starts after the first i characters.
WordEnd(i) ==
    CHOOSE e \in i..Len(source) :
        /\ \A k \in (i + 1)..e : source[k] \in Lower \cup Upper \cup Digits \cup {"_"}
        /\ CharAt(e + 1) \notin Lower \cup Upper \cup Digits \cup {"_"}

\* The reserved words and the tokens they lex to: the sixteen keywords and
\* the two boolean literals.
Reserved ==
    {<<<<"b", "r", "e", "a", "k">>, "Break">>,
     <<<<"c", "o", "n", "s", "t">>, "Const">>,
     <<<<"c", "o", "n", "t", "i", "n", "u", "e">>, "Continue">>,
     <<<<"e", "n", "u", "m">>, "Enum">>,
     <<<<"f", "n">>, "Fn">>,
     <<<<"f", "o", "r">>, "For">>,
     <<<<"l", "e", "t">>, "Let">>,
     <<<<"l", "o", "o", "p">>, "Loop">>,
     <<<<"m", "a", "t", "c", "h">>, "Match">>,
     <<<<"m", "o", "d">>, "Mod">>,
     <<<<"m", "u", "t">>, "Mut">>,
     <<<<"p", "r", "o", "t", "o">>, "Proto">>,
     <<<<"p", "u", "b">>, "Pub">>,
     <<<<"s", "t", "r", "u", "c", "t">>, "Struct">>,
     <<<<"u", "s", "e">>, "Use">>,
     <<<<"w", "h", "i", "l", "e">>, "While">>,
     <<<<"f", "a", "l", "s", "e">>, "Bool">>,
     <<<<"t", "r", "u", "e">>, "Bool">>}

\* C11: when the lexeme of a pull starts with an ASCII letter or "_", the
\* pull consumes the longest run of ASCII letters, digits and "_"; it
\* returns the token of a reserved word when the whole run is that word,
\* letter for letter, and otherwise one Identifier that carries the whole
\* run.
C11_KeywordOrIdentifier ==
    Pulled /\ CharAt(LexemeAt + 1) \in Lower \cup Upper \cup {"_"} =>
        LET j == LexemeAt
            e == WordEnd(j)
            run == SubSeq(source, j + 1, e)
        IN /\ result.tag = "Some"
           /\ chars = e
           /\ result.span = Span(Offset(j), Offset(e))
           /\ \A w \in Reserved : run = w[1] => result.value.kind = w[2]
           /\ (\A w \in Reserved : run # w[1]) =>
                 result.value = Some("Identifier", run)

\* C11's case: a run that a reserved word starts, and is longer than it,
\* has given one Identifier.
C11_Witness ==
    /\ Pulled
    /\ result.value.kind = "Identifier"
    /\ \E w \in Reserved :
          /\ Len(result.value.text) > Len(w[1])
          /\ SubSeq(result.value.text, 1, Len(w[1])) = w[1]

\* Character number k stands after an active backslash: the backslashes
\* right before it, back to character number lo, are odd in number.
Escaped(lo, k) ==
    LET first == CHOOSE b \in lo..k :
                     /\ \A i \in b..(k - 1) : source[i] = "\\"
                     /\ (b = lo \/ source[b - 1] # "\\")
    IN (k - first) % 2 = 1

\* The closing quote of the string literal whose opening quote is
\* character number q: the first double quote after it that no active
\* backslash precedes; 0 when there is none.
ClosingQuote(q) ==
    LET closers == {k \in (q + 1)..Len(source) :
                       source[k] = "\"" /\ ~Escaped(q + 1, k)}
    IN IF closers = {} THEN 0
       ELSE CHOOSE k \in closers : \A other \in closers : k <= other

\* The body of a string literal decoded from left to right.
RECURSIVE Decode(_)
Decode(body) ==
    IF body = <<>> THEN <<>>
    ELSE IF Head(body) = "\\" /\ Len(body) >= 2
    THEN (CASE body[2] = "n" -> <<"\n">>
            [] body[2] = "r" -> <<"\r">>
            [] body[2] = "t" -> <<"\t">>
            [] body[2] = "\\" -> <<"\\">>
            [] body[2] = "\"" -> <<"\"">>
            [] OTHER -> <<"\\", body[2]>>) \o Decode(SubSeq(body, 3, Len(body)))
    ELSE <<Head(body)>> \o Decode(Tail(body))

\* C12: for a string literal that is terminated, the literal ends at the
\* first double quote that no active backslash precedes, and the text of
\* the String token is its body decoded from left to right: the five
\* escapes give one character each, a backslash before any other character
\* gives the backslash and that character, every other character is
\* copied.
C12_StringDecoded ==
    Pulled /\ CharAt(LexemeAt + 1) = "\"" /\ ClosingQuote(LexemeAt + 1) # 0 =>
        LET q == LexemeAt + 1
            close == ClosingQuote(q)
        IN /\ result.tag = "Some"
           /\ result.value = Some("String", Decode(SubSeq(source, q + 1, close - 1)))
           /\ result.span = Span(Offset(q - 1), Offset(close))
           /\ chars = close

\* C12's case: a String decoded from a body with an unknown escape in it,
\* which kept its backslash.
C12_Witness ==
    /\ Pulled
    /\ result.value.kind = "String"
    /\ Len(result.value.text) >= 2
    /\ \E i \in 1..(Len(result.value.text) - 1) :
          result.value.text[i] = "\\" /\ result.value.text[i + 1] = "q"

UnterminatedKinds ==
    {"UnterminatedString", "UnterminatedChar", "UnterminatedComment"}

\* C13: a token UnterminatedString, UnterminatedChar or
\* UnterminatedComment ends at the end of the source and is the last token
\* ever produced: the pull after it returns end-of-stream; an
\* UnterminatedString starts at the opening quote and carries no text.
C13_UnterminatedAtEnd ==
    /\ \A t \in 1..Len(tokens) :
          tokens[t].value.kind \in UnterminatedKinds =>
              /\ tokens[t].span.end = SourceBytes
              /\ t = Len(tokens)
              /\ tokens[t].value.kind = "UnterminatedString" =>
                    /\ tokens[t].value.text = <<>>
                    /\ CharAtByte(tokens[t].span.start) = "\""
    /\ /\ pc = "return"
       /\ tokens # <<>>
       /\ tokens[Len(tokens)].value.kind \in UnterminatedKinds
       => ~local.tok.some /\ local.tok.kind = "Eof"
    /\ /\ Pulled
       /\ tokens # <<>>
       /\ tokens[Len(tokens)].value.kind \in UnterminatedKinds
       => \/ result.tag = "None"
          \/ result.tag = "Some" /\ result.value = tokens[Len(tokens)].value
                                 /\ result.span = tokens[Len(tokens)].span

\* C13's case: an UnterminatedString over several characters, after
\* another token, and end-of-stream returned by the pull after it.
C13_Witness ==
    /\ Ended
    /\ Len(tokens) >= 2
    /\ tokens[Len(tokens)].value.kind = "UnterminatedString"
    /\ tokens[Len(tokens)].span.end - tokens[Len(tokens)].span.start >= 3

\* The number of characters of the body of the character literal whose
\* opening quote is character number q: a backslash and one character, or
\* one character.
BodyLen(q) == IF CharAt(q + 1) = "\\" THEN 2 ELSE 1

\* C14: in a character literal, when the character after the body exists
\* and is no closing quote, the pull returns InvalidCharLiteral having
\* consumed the opening quote, the body and that one character, and the
\* next pull starts right after it; 'AB' gives InvalidCharLiteral, then
\* UnterminatedChar.
C14_InvalidCharLiteral ==
    /\ Pulled /\ CharAt(LexemeAt + 1) = "'" =>
          LET q == LexemeAt + 1
              after == q + BodyLen(q) + 1
          IN CharAt(after) \notin {NoChar, "'"} =>
                /\ result.tag = "Some"
                /\ result.value = Some("InvalidCharLiteral", <<>>)
                /\ result.span = Span(Offset(q - 1), Offset(after))
                /\ chars = after
    /\ pc # "idle" /\ result.value.kind = "InvalidCharLiteral" =>
          /\ entry.pos = result.span.end
          /\ entry.chars = char_index(result.span.end)
    /\ Ended /\ source = <<"'", "A", "B", "'">> =>
          Kinds = <<"InvalidCharLiteral", "UnterminatedChar">>

\* C14's case: the pull after an InvalidCharLiteral started at the closing
\* quote that was left and returned UnterminatedChar.
C14_Witness ==
    /\ Pulled
    /\ Len(tokens) >= 2
    /\ tokens[Len(tokens) - 1].value.kind = "InvalidCharLiteral"
    /\ result.value.kind = "UnterminatedChar"
    /\ result.span.start = tokens[Len(tokens) - 1].span.end
    /\ result.span.end = result.span.start + 1

\* The character that the escape of c denotes in a character literal.
CharEscape(c) ==
    CASE c = "n" -> "\n"
      [] c = "r" -> "\r"
      [] c = "t" -> "\t"
      [] OTHER -> c

\* C15: a character literal of a backslash and a character c, closed by a
\* quote, gives Char of the character that n, r, t, the backslash or the
\* double quote denote in a string, and Char(c) for every other c, the
\* single quote too; in a string an escape that is not one of the five
\* keeps its backslash.
C15_CharEscapes ==
    /\ Pulled /\ CharAt(LexemeAt + 1) = "'" /\ CharAt(LexemeAt + 2) = "\\"
              /\ CharAt(LexemeAt + 3) # NoChar /\ CharAt(LexemeAt + 4) = "'" =>
          /\ result.tag = "Some"
          /\ result.value = Some("Char", <<CharEscape(CharAt(LexemeAt + 3))>>)
          /\ result.span = Span(Offset(LexemeAt), Offset(LexemeAt + 4))
          /\ CharAt(LexemeAt + 3) \in {"n", "r", "t", "\\", "\""} =>
                <<result.value.text[1]>> = Decode(SubSeq(source, LexemeAt + 2, LexemeAt + 3))
    /\ Pulled /\ result.value.kind = "String"
              /\ Len(Lexeme(result.span)) = 4
              /\ Lexeme(result.span)[2] = "\\"
              /\ Lexeme(result.span)[3] \notin {"n", "r", "t", "\\", "\""} =>
          result.value.text = <<"\\", Lexeme(result.span)[3]>>

\* C15's case: the literal of an escaped single quote has given Char of the
\* single quote.
C15_Witness ==
    /\ Pulled
    /\ result.value = Some("Char", <<"'">>)
    /\ Lexeme(result.span) = <<"'", "\\", "'", "'">>

\* C15's other case: the literal of an unknown escape has given Char of the
\* character alone.
C15_WitnessUnknown ==
    /\ Pulled
    /\ result.value = Some("Char", <<"q">>)
    /\ Lexeme(result.span) = <<"'", "\\", "q", "'">>

\* The characters "*" that "#" follows, after the opening "#*" that
\* follows the first j characters.
Closers(j) ==
    {k \in (j + 3)..(Len(source) - 1) : source[k] = "*" /\ source[k + 1] = "#"}

FirstCloser(j) == CHOOSE k \in Closers(j) : \A other \in Closers(j) : k <= other

\* C16: for a lexeme that starts with "#*", the token is Comment of the
\* text between the "#*" and the first "*#" that begins after it, with a
\* span over both delimiters; when there is no such "*#" it is
\* UnterminatedComment of all the text after the "#*", to the end of the
\* source.
C16_MultiLineComment ==
    Pulled /\ CharAt(LexemeAt + 1) = "#" /\ CharAt(LexemeAt + 2) = "*" =>
        LET j == LexemeAt
        IN /\ result.tag = "Some"
           /\ IF Closers(j) # {}
              THEN /\ result.value =
                         Some("Comment", SubSeq(source, j + 3, FirstCloser(j) - 1))
                   /\ result.span = Span(Offset(j), Offset(FirstCloser(j) + 1))
                   /\ chars = FirstCloser(j) + 1
              ELSE /\ result.value =
                         Some("UnterminatedComment", SubSeq(source, j + 3, Len(source)))
                   /\ result.span = Span(Offset(j), SourceBytes)
                   /\ chars = Len(source)

\* C16's case: a comment whose text starts with the "#" that follows the
\* "*" of the opening delimiter, closed by a later "*#".
C16_Witness ==
    /\ Pulled
    /\ result.value.kind = "Comment"
    /\ Len(Lexeme(result.span)) >= 5
    /\ SubSeq(Lexeme(result.span), 1, 3) = <<"#", "*", "#">>
    /\ result.value.text[1] = "#"

\* C16's other case: #*# is unterminated.
C16_WitnessUnterminated ==
    /\ Pulled
    /\ source = <<"#", "*", "#">>
    /\ result.value = Some("UnterminatedComment", <<"#">>)

\* The number of characters before the first end of line after the first
\* i characters, or the length of the source.
LineEnd(i) ==
    CHOOSE e \in i..Len(source) :
        /\ \A k \in (i + 1)..e : source[k] # "\n"
        /\ CharAt(e + 1) \in {"\n", NoChar}

\* C17: for a lexeme that starts with "#" and no "*" after it, the token
\* is Comment of the text after the "#" up to the next end of line or the
\* end of the source; the end of line is not consumed, the span ends at
\* it, and the next token starts after it.
C17_SingleLineComment ==
    /\ Pulled /\ CharAt(LexemeAt + 1) = "#" /\ CharAt(LexemeAt + 2) # "*" =>
          LET j == LexemeAt
              e == LineEnd(j + 1)
          IN /\ result.tag = "Some"
             /\ result.value = Some("Comment", SubSeq(source, j + 2, e))
             /\ result.span = Span(Offset(j), Offset(e))
             /\ chars = e
    /\ /\ pc = "return"
       /\ result.value.kind = "Comment"
       /\ CharAtByte(result.span.end) = "\n"
       => /\ entry.pos = result.span.end
          /\ local.tok.some => local.start > result.span.end

\* C17's case: a token that starts after the end of the line that ended a
\* single-line comment with text.
C17_Witness ==
    /\ Pulled
    /\ Len(tokens) >= 2
    /\ tokens[Len(tokens) - 1].value.kind = "Comment"
    /\ tokens[Len(tokens) - 1].value.text # <<>>
    /\ CharAtByte(tokens[Len(tokens) - 1].span.start + 1) # "*"
    /\ CharAtByte(tokens[Len(tokens) - 1].span.end) = "\n"
    /\ result.tag = "Some"
    /\ result.span.start = tokens[Len(tokens) - 1].span.end + 1

\* The characters that begin a lexeme of some class.
LexemeStarts ==
    Punctuation \cup Digits \cup Lower \cup Upper \cup {"-", "#", "\"", "'", "_"}

\* C18: when the lexeme of a pull starts with a character that begins no
\* class of lexeme, the pull returns Unknown of that character, with a
\* span over that one character, one to four bytes long, and the next pull
\* starts at the character after it.
C18_UnknownCharacter ==
    /\ Pulled /\ CharAt(LexemeAt + 1) \notin LexemeStarts \cup {NoChar} =>
          /\ result.tag = "Some"
          /\ result.value = Some("Unknown", <<CharAt(LexemeAt + 1)>>)
          /\ result.span = Span(Offset(LexemeAt), Offset(LexemeAt + 1))
          /\ result.span.end - result.span.start = len_utf8(CharAt(LexemeAt + 1))
          /\ result.span.end - result.span.start \in 1..4
          /\ chars = LexemeAt + 1
    /\ pc # "idle" /\ result.value.kind = "Unknown" =>
          /\ entry.pos = result.span.end
          /\ entry.chars = char_index(result.span.end)
          /\ is_char_boundary(entry.pos)

\* C18's case: a token that starts right after an Unknown of three bytes.
C18_Witness ==
    /\ Pulled
    /\ Len(tokens) >= 2
    /\ tokens[Len(tokens) - 1].value.kind = "Unknown"
    /\ tokens[Len(tokens) - 1].span.end - tokens[Len(tokens) - 1].span.start = 3
    /\ result.tag = "Some"
    /\ result.span.start = tokens[Len(tokens) - 1].span.end

\* C18's other cases: an Unknown of four bytes, and one of one byte.
C18_WitnessFour ==
    /\ Pulled
    /\ result.value.kind = "Unknown"
    /\ result.span.end - result.span.start = 4

C18_WitnessOne ==
    /\ Pulled
    /\ result.value = Some("Unknown", <<"\\">>)
    /\ result.span.end - result.span.start = 1

\* C19: the runs `true` and `false` lex to Bool(true) and Bool(false), and
\* no token ever has the keyword tag True or False.
C19_BoolLiterals ==
    /\ \A t \in 1..Len(tokens) : tokens[t].value.kind \notin {"True", "False"}
    /\ local.tok.kind \notin {"True", "False"}
    /\ Pulled /\ CharAt(LexemeAt + 1) \in Lower =>
          LET run == SubSeq(source, LexemeAt + 1, WordEnd(LexemeAt))
          IN /\ run = <<"t", "r", "u", "e">> =>
                   result.value = Some("Bool", <<"t", "r", "u", "e">>)
             /\ run = <<"f", "a", "l", "s", "e">> =>
                   result.value = Some("Bool", <<"f", "a", "l", "s", "e">>)
             /\ result.value.kind = "Bool" =>
                   /\ run \in {<<"t", "r", "u", "e">>, <<"f", "a", "l", "s", "e">>}
                   /\ result.value.text = run

\* C19's case: Bool(true), then Bool(false).
C19_Witness ==
    /\ Pulled
    /\ Len(tokens) >= 2
    /\ tokens[Len(tokens) - 1].value = Some("Bool", <<"t", "r", "u", "e">>)
    /\ result.value = Some("Bool", <<"f", "a", "l", "s", "e">>)

\* C20: what a pull returns depends on the text from its cursor on only:
\* the first pull of a lexer whose source is the text that another lexer,
\* after any text and tokens, had from its cursor on, returns the same
\* token, kind and payload, at the same distance from the cursor, and
\* moves the cursor by as many bytes; a-1 gives Identifier(a), then
\* Int(-1), and no Minus.
C20_SuffixDetermines ==
    /\ pc = "return" /\ memo.set =>
          /\ local.tok = memo.value
          /\ pos = memo.advance
          /\ local.tok.some => local.start = memo.start
    /\ Ended /\ source = <<"a", "-", "1">> =>
          /\ Kinds = <<"Identifier", "Int">>
          /\ tokens[2].value.text = <<"-", "1">>

\* C20's case: the lexer of -1 alone returns Int(-1), as did the lexer that
\* had lexed a token before it.
C20_Witness ==
    /\ pc = "return"
    /\ memo.set
    /\ memo.before >= 1
    /\ source = <<"-", "1">>
    /\ memo.value = Some("Int", <<"-", "1">>)
    /\ local.tok = memo.value

\* C20's other case: two lexers agree after whitespace, on a token that
\* starts three bytes after the cursor.
C20_WitnessGap ==
    /\ pc = "return"
    /\ memo.set
    /\ memo.before >= 1
    /\ local.tok.some
    /\ local.start = 3
    /\ memo.start = 3

\* C21: once a pull has returned end-of-stream, every later pull returns
\* end-of-stream too and leaves the cursor where it was.  While a pull
\* runs, result is still what the pull before it returned.
C21_EndIsFinal ==
    /\ pc # "idle" /\ result.tag = "None" => pos = entry.pos
    /\ pc = "return" /\ result.tag = "None" => ~local.tok.some

\* The magnitude of an i64 written as its decimal text.
Magnitude(v) == IF Head(v) = "-" THEN Tail(v) ELSE v

\* C22: the digit run is parsed as a non-negative i64 before the sign is
\* applied, so every Int token has a value between -(2^63 - 1) and
\* 2^63 - 1: a literal of digits, after a "-" or not, with no "." after
\* it, gives an Int exactly when its magnitude is at most 2^63 - 1, and
\* -9223372036854775808 gives no Int token.
C22_IntRange ==
    /\ \A t \in 1..Len(tokens) :
          tokens[t].value.kind = "Int" =>
              dec_leq(Magnitude(tokens[t].value.text), I64_MAX)
    /\ Pulled =>
          LET j == LexemeAt
              d == IF CharAt(j + 1) = "-" THEN j + 1 ELSE j
              e == RunEnd(d)
              run == SubSeq(source, d + 1, e)
          IN is_digit(CharAt(d + 1)) /\ CharAt(e + 1) # "." =>
                IF Overflows(run)
                THEN result.tag = "None"
                ELSE /\ result.tag = "Some"
                     /\ result.value =
                           Some("Int", IF d > j THEN Negated(run)
                                       ELSE strip_leading_zeros(run))
    /\ source = <<"-">> \o I64_MIN_MAG => tokens = <<>>

\* C22's case: the negative literal of the largest magnitude is accepted.
C22_Witness ==
    /\ Pulled
    /\ result.value = Some("Int", <<"-">> \o I64_MAX)

\* C22's other case: the literal of the least i64 has given no token.
C22_WitnessMin ==
    /\ Ended
    /\ source = <<"-">> \o I64_MIN_MAG
    /\ result.value.kind = "Parse"
    /\ pos = SourceBytes

====
